---- MODULE Spec2Model ----
(***************************************************************************)
(* Model of outlook_creator.py: the account store (AccountManager), the    *)
(* proxy rotation allocator (ProxyManager) and the worker pools of         *)
(* create_accounts / change_passwords.                                     *)
(*                                                                         *)
(* Specifications:                                                         *)
(*   Spec          a batch run: main thread, worker threads, queues,       *)
(*                 sessions, proxy allocation and store writes             *)
(*   StoreSpec     sequential save_account / update_account /              *)
(*                 load_accounts calls on one store                        *)
(*   StoreConcSpec concurrent save_account / update_account calls, one     *)
(*                 file operation per step                                 *)
(*   ProxySpec     concurrent get_next_proxy callers on a fixed pool       *)
(*   PoolSpec      sequential add_proxy / load_from_file /                 *)
(*                 get_next_proxy calls on one allocator                   *)
(*   StoreLoadSpec save_account / update_account calls with concurrent     *)
(*                 load_accounts calls                                     *)
(*   CommandSpec   main() for create and change (with -e and -f), up to    *)
(*                 the export after the batch and the exit status          *)
(*   InterruptSpec a batch run during which Ctrl-C may arrive              *)
(*   ExportSpec    store calls followed by one export_accounts call        *)
(*   BirthdaySpec  generate_random_birthday on a given date                *)
(*   PasswordSpec  generate_random_password for a given length             *)
(*   PoolConcSpec  get_next_proxy callers with concurrent add_proxy and    *)
(*                 load_from_file calls                                    *)
(***************************************************************************)
EXTENDS Integers, Sequences, FiniteSets, TLC

VARIABLES
    \* ---- the account store (files on disk and the module-level lock)
    accounts_file,   \* data rows of outlook_accounts.csv, below its header
    totp_file,       \* the list held by totp_secrets.json
    LOCK,            \* holder of the module-level threading.Lock, 0 when free
    export_file,     \* lines of the file export_accounts wrote, when it is
                     \* not one of the store's own files
    other_file,      \* data rows of the accounts file given with -f, when it
                     \* is not outlook_accounts.csv
    \* ---- the proxy allocator
    proxies,         \* ProxyManager.proxies
    current_index,   \* ProxyManager.current_index, 0-based as in the source
    lock,            \* holder of ProxyManager.lock, 0 when free
    \* ---- a batch run (create_accounts / change_passwords)
    command,         \* "create" or "change"
    count,           \* number of jobs of the batch
    threads,         \* requested worker count
    task_queue,      \* queue.Queue of pending jobs
    result_queue,    \* queue.Queue of job results
    results,         \* the list the run returns
    main_pc,         \* position of the main thread
    thread_list,     \* number of worker threads started so far
    args_email,      \* -e of the change command, "" when not given
    exit_code,       \* exit status of the program, -1 while it runs
    args_file,       \* -f of the change command: "default" or "other"
    \* ---- per thread
    pc,              \* position of each thread
    task,            \* the job a worker dequeued (task_id / account); 0 between jobs
    proxy,           \* the proxy a worker was handed ("" for None and between jobs)
    account_info,    \* the dict a thread works on, NoInfo once it is dead
    exc,             \* TRUE while an exception is propagating in the worker
    accounts,        \* update_account's local list of rows
    totp_data,       \* save_account / update_account's local TOTP list
    \* ---- the generators of OutlookCreator
    today,           \* datetime.datetime.now() as <<year, month, day>>
    birthday,        \* what generate_random_birthday returned, <<>> before
    length,          \* the length generate_random_password is asked for
    generated,       \* the characters generate_random_password returned
    \* ---- history (not program state)
    open_sessions,   \* <<worker, job>> of every browser session that is open
    history,         \* completed calls, in order of completion
    prev_accounts,   \* accounts_file before the last completed call
    prev_totp,       \* totp_file before the last completed call
    loaded,          \* what the last load_accounts returned
    loaded_at,       \* Len(history) when load_accounts last ran, -1 if never
    issued           \* endpoints handed out, in the order the lock was held

storeVars  == <<accounts_file, totp_file, LOCK, export_file, other_file>>
proxyVars  == <<proxies, current_index, lock>>
batchVars  == <<command, count, threads, task_queue, result_queue, results,
                main_pc, thread_list, args_email, exit_code, args_file>>
threadVars == <<pc, task, proxy, account_info, exc, accounts, totp_data>>
histVars   == <<open_sessions, history, prev_accounts, prev_totp,
                loaded, loaded_at, issued>>
synthVars  == <<today, birthday, length, generated>>
vars == <<storeVars, proxyVars, batchVars, threadVars, histVars, synthVars>>

----------------------------------------------------------------------------
(* Bounds *)

MaxJobs == 2
MaxThreads == 2
MaxCalls == 3
MaxIssued == 7

Threads == 1..MaxThreads
Jobs    == 1..MaxJobs

----------------------------------------------------------------------------
(* Values *)

Emails    == {"a@outlook.com", "b@outlook.com"}
Passwords == {"pw1", "pw2"}
Secrets   == {"", "SECRET1", "SECRET2"}
Endpoints == <<"h1:1080", "h2:1080", "h3:1080">>

\* datetime.datetime.now().strftime(...): used only when the dict carries no time
Now == "now"

\* str(e) of a caught exception
ErrText == "err"

\* a dict key that is absent in a recorded result
Absent == "<absent>"

\* a thread that holds no dict
NoInfo == [unset |-> TRUE]

\* dict.get(key, default)
Get(d, k, default) == IF k \in DOMAIN d THEN d[k] ELSE default

\* truth value of a string, as in `if account_info.get("totp_secret")`
Truthy(s) == s # ""

\* Python numbers the dicts carry (birth date as int, elapsed time as float),
\* each with the text str() gives for it; every other value is a str
Numbers ==
    {<<"<int 1990>", "1990">>, <<"<int 2>", "2">>, <<"<int 28>", "28">>,
     <<"<float 7.5>", "7.5">>, <<"<float 9.25>", "9.25">>}

IsNumber(v) == \E n \in Numbers : n[1] = v

\* what csv.writer puts in a cell: str(value)
CsvStr(v) == IF IsNumber(v) THEN (CHOOSE n \in Numbers : n[1] = v)[2] ELSE v

Range(s) == {s[i] : i \in DOMAIN s}

----------------------------------------------------------------------------
(* AccountManager *)

Columns ==
    {"email", "password", "first_name", "last_name", "birth_year",
     "birth_month", "birth_day", "totp_secret", "creation_time", "elapsed_time"}

\* the row save_account appends to the CSV file
SaveRow(info) ==
    [email         |-> CsvStr(Get(info, "email", "")),
     password      |-> CsvStr(Get(info, "password", "")),
     first_name    |-> CsvStr(Get(info, "first_name", "")),
     last_name     |-> CsvStr(Get(info, "last_name", "")),
     birth_year    |-> CsvStr(Get(info, "birth_year", "")),
     birth_month   |-> CsvStr(Get(info, "birth_month", "")),
     birth_day     |-> CsvStr(Get(info, "birth_day", "")),
     totp_secret   |-> CsvStr(Get(info, "totp_secret", "")),
     creation_time |-> CsvStr(Get(info, "creation_time", "")),
     elapsed_time  |-> CsvStr(Get(info, "elapsed_time", ""))]

\* the entry save_account appends to the TOTP list
SaveTotpInfo(info) ==
    [email  |-> info["email"],
     secret |-> info["totp_secret"],
     time   |-> Get(info, "creation_time", Now)]

\* a mutated save: the row is put in front of the rows that are there
SaveAccountsFilePrepend(file, info) == <<SaveRow(info)>> \o file

\* save_account, file by file
SaveAccountsFile(file, info) == Append(file, SaveRow(info))

SaveTotpFile(file, info) ==
    IF Truthy(Get(info, "totp_secret", ""))
    THEN Append(file, SaveTotpInfo(info))
    ELSE file

\* csv.DictReader over the file: every value comes back as a string
ReadRows(file) == [i \in DOMAIN file |-> [c \in Columns |-> file[i][c]]]

\* csv.DictWriter.writerows
WriteRows(rows) == [i \in DOMAIN rows |-> [c \in Columns |-> CsvStr(rows[i][c])]]

\* index of the first element of s whose email is e, 0 if there is none
FirstIndex(s, e) ==
    IF \E i \in DOMAIN s : s[i].email = e
    THEN CHOOSE i \in DOMAIN s :
            /\ s[i].email = e
            /\ \A j \in DOMAIN s : s[j].email = e => i <= j
    ELSE 0

\* the row update_account appends when no row has the email
MinimalRow(info) ==
    [email         |-> info["email"],
     password      |-> info["new_password"],
     first_name    |-> "",
     last_name     |-> "",
     birth_year    |-> "",
     birth_month   |-> "",
     birth_day     |-> "",
     totp_secret   |-> Get(info, "totp_secret", ""),
     creation_time |-> Get(info, "update_time", ""),
     elapsed_time  |-> Get(info, "elapsed_time", "")]

\* a mutated update: the row is appended whether or not one was found
UpdateRowsAlwaysAppend(rows, info) == Append(rows, MinimalRow(info))

\* a mutated update: the found row's password is left as it was
UpdateRowsKeepPassword(rows, info) ==
    IF FirstIndex(rows, info["email"]) # 0 THEN rows
    ELSE Append(rows, MinimalRow(info))

\* a mutated update: the found row's creation_time is stamped as well
UpdateRowsStampTime(rows, info) ==
    LET i == FirstIndex(rows, info["email"]) IN
    IF i # 0
    THEN [rows EXCEPT ![i] =
            [@ EXCEPT !.password = info["new_password"],
                      !.creation_time = Get(info, "update_time", ""),
                      !.totp_secret =
                          IF Truthy(Get(info, "totp_secret", ""))
                          THEN info["totp_secret"] ELSE @]]
    ELSE Append(rows, MinimalRow(info))

\* update_account's loop over the rows and its append
UpdateRows(rows, info) ==
    LET i == FirstIndex(rows, info["email"]) IN
    IF i # 0
    THEN [rows EXCEPT ![i] =
            [@ EXCEPT !.password = info["new_password"],
                      !.totp_secret =
                          IF Truthy(Get(info, "totp_secret", ""))
                          THEN info["totp_secret"] ELSE @]]
    ELSE Append(rows, MinimalRow(info))

\* a mutated TOTP update: the entry is appended without looking for one
UpdateTotpAlwaysAppend(data, info) ==
    Append(data, [email  |-> info["email"],
                  secret |-> info["totp_secret"],
                  time   |-> Get(info, "update_time", Now)])

\* update_account's loop over the TOTP entries and its append
UpdateTotp(data, info) ==
    LET i == FirstIndex(data, info["email"]) IN
    IF i # 0
    THEN [data EXCEPT ![i] =
            [@ EXCEPT !.secret = info["totp_secret"],
                      !.time = Get(info, "update_time", Now)]]
    ELSE Append(data, [email  |-> info["email"],
                       secret |-> info["totp_secret"],
                       time   |-> Get(info, "update_time", Now)])

\* update_account, file by file
UpdateAccountsFile(file, info) == WriteRows(UpdateRows(ReadRows(file), info))

UpdateTotpFile(file, info) ==
    IF Truthy(Get(info, "totp_secret", ""))
    THEN UpdateTotp(file, info)
    ELSE file

\* load_accounts
LoadAccounts(file) == ReadRows(file)

\* format_type.lower()
Lower(s) == IF s = "CSV" THEN "csv" ELSE s

\* the row of three column titles export_accounts writes first in csv form
ExportHeader == <<"<email title>", "<password title>", "<TOTP title>">>

\* the lines export_accounts writes: a title row and one row of three cells
\* per account, or one line "email<sep>password<sep>totp_secret" per account
ExportLines(format_type, rows) ==
    IF Lower(format_type) = "csv"
    THEN <<ExportHeader>> \o
         [i \in DOMAIN rows |->
             <<Get(rows[i], "email", ""), Get(rows[i], "password", ""),
               Get(rows[i], "totp_secret", "")>>]
    ELSE [i \in DOMAIN rows |->
             <<Get(rows[i], "email", ""), "<sep>", Get(rows[i], "password", ""),
               "<sep>", Get(rows[i], "totp_secret", "")>>]

----------------------------------------------------------------------------
(* The dicts the job procedures hand to the store *)

\* create_outlook_account's current_account
CreatedAccount(email, password, secret) ==
    [email         |-> email,
     password      |-> password,
     first_name    |-> "Alex",
     last_name     |-> "Smith",
     birth_year    |-> "<int 1990>",
     birth_month   |-> "<int 2>",
     birth_day     |-> "<int 28>",
     totp_secret   |-> secret,
     creation_time |-> "t0",
     elapsed_time  |-> "<float 7.5>"]

\* change_password's account_info
ChangedAccount(email, old_password, new_password, secret) ==
    [email        |-> email,
     old_password |-> old_password,
     new_password |-> new_password,
     totp_secret  |-> secret,
     update_time  |-> "t1",
     elapsed_time |-> "<float 9.25>"]

\* the same dicts with the "error" key set by the procedure's except clause
WithError(info) ==
    [k \in DOMAIN info \cup {"error"} |-> IF k = "error" THEN ErrText ELSE info[k]]

\* save_account as one step (the caller is alone)
SaveAccount(info) ==
    /\ accounts_file' = SaveAccountsFile(accounts_file, info)
    /\ totp_file' = SaveTotpFile(totp_file, info)

\* update_account as one step (the caller is alone)
UpdateAccount(info) ==
    /\ accounts_file' = UpdateAccountsFile(accounts_file, info)
    /\ totp_file' = UpdateTotpFile(totp_file, info)

----------------------------------------------------------------------------
(* Values of the variables a specification does not use *)

IdleThreads ==
    /\ pc = [t \in Threads |-> "idle"]
    /\ task = [t \in Threads |-> 0]
    /\ proxy = [t \in Threads |-> ""]
    /\ account_info = [t \in Threads |-> NoInfo]
    /\ exc = [t \in Threads |-> FALSE]
    /\ accounts = [t \in Threads |-> <<>>]
    /\ totp_data = [t \in Threads |-> <<>>]

NoBatch ==
    /\ command = "none"
    /\ count = 0
    /\ threads = 0
    /\ task_queue = <<>>
    /\ result_queue = <<>>
    /\ results = <<>>
    /\ main_pc = "none"
    /\ thread_list = 0
    /\ args_email = ""
    /\ exit_code = -1
    /\ args_file = "default"

\* ensure_files_exist: a header-only CSV file and an empty JSON list
EmptyStore ==
    /\ accounts_file = <<>>
    /\ totp_file = <<>>
    /\ export_file = <<>>
    /\ other_file = <<>>
    /\ LOCK = 0

\* ProxyManager.__init__ with no proxies
EmptyPool ==
    /\ proxies = <<>>
    /\ current_index = 0
    /\ lock = 0

\* no generator has been called
NoSynth ==
    /\ today = <<>>
    /\ birthday = <<>>
    /\ length = 0
    /\ generated = <<>>

NoHistory ==
    /\ open_sessions = {}
    /\ history = <<>>
    /\ prev_accounts = <<>>
    /\ prev_totp = <<>>
    /\ loaded = <<>>
    /\ loaded_at = -1
    /\ issued = <<>>

----------------------------------------------------------------------------
(* StoreSpec: one caller, any sequence of save_account, update_account and *)
(* load_accounts                                                           *)

StoreInit ==
    EmptyStore /\ EmptyPool /\ NoBatch /\ IdleThreads /\ NoHistory /\ NoSynth

Called(op, e, p, s) == [op |-> op, email |-> e, password |-> p, secret |-> s]

Completed(call) ==
    /\ history' = Append(history, call)
    /\ prev_accounts' = accounts_file
    /\ prev_totp' = totp_file
    /\ loaded' = <<>>      \* the list an earlier load returned is dropped
    /\ loaded_at' = -1
    /\ UNCHANGED <<LOCK, export_file, other_file, proxyVars, batchVars,
                   threadVars, open_sessions, issued, synthVars>>

SaveCall ==
    \E e \in Emails, p \in Passwords, s \in Secrets :
        /\ Len(history) < MaxCalls
        /\ SaveAccount(CreatedAccount(e, p, s))
        /\ Completed(Called("save", e, p, s))

UpdateCall ==
    \E e \in Emails, p \in Passwords, s \in Secrets :
        /\ Len(history) < MaxCalls
        /\ UpdateAccount(ChangedAccount(e, "old", p, s))
        /\ Completed(Called("update", e, p, s))

LoadCall ==
    /\ loaded_at # Len(history)
    /\ loaded' = LoadAccounts(accounts_file)
    /\ loaded_at' = Len(history)
    /\ UNCHANGED <<storeVars, proxyVars, batchVars, threadVars, open_sessions,
                   history, prev_accounts, prev_totp,
                   issued, synthVars>>

StoreNext == SaveCall \/ UpdateCall \/ LoadCall

StoreSpec == StoreInit /\ [][StoreNext]_vars

----------------------------------------------------------------------------
(* Claims about the store under one caller (StoreSpec) *)

RowsOf(file, e) == {i \in DOMAIN file : file[i].email = e}

CallsFor(e) == {i \in DOMAIN history : history[i].email = e}

Max(S) == CHOOSE x \in S : \A y \in S : y <= x

\* password of the most recent call for e
LastPassword(e) == history[Max(CallsFor(e))].password

\* most recent non-empty totp_secret passed for e, "" if there was none
LastSecret(e) ==
    LET given == {i \in CallsFor(e) : history[i].secret # ""} IN
    IF given = {} THEN "" ELSE history[Max(given)].secret

\* every save_account call was for an email that had no row yet
FreshSaves ==
    \A i \in DOMAIN history :
        history[i].op = "save" =>
            \A j \in 1..(i - 1) : history[j].email # history[i].email

OneRowPerEmail ==
    \A e \in Emails :
        IF CallsFor(e) = {}
        THEN RowsOf(accounts_file, e) = {}
        ELSE /\ Cardinality(RowsOf(accounts_file, e)) = 1
             /\ \A i \in RowsOf(accounts_file, e) :
                    /\ accounts_file[i].password = LastPassword(e)
                    /\ accounts_file[i].totp_secret = LastSecret(e)

\* C4 as claimed: after any sequence of save_account and update_account
\* calls, emails repeating freely, the account collection has exactly one row
\* per distinct email, with the most recent password and the most recent
\* non-empty totp_secret of that email.
C4_OneRowPerEmail_Original == OneRowPerEmail

\* C4 amended: the same, for sequences in which save_account is called only
\* for emails that have no row yet.
C4_OneRowPerEmail == FreshSaves => OneRowPerEmail

\* a save, then an update of the same email with another password and a
\* secret, then an update without a secret
C4_Witness ==
    /\ Len(history) = 3
    /\ FreshSaves
    /\ history[1].op = "save" /\ history[1].secret = "SECRET1"
    /\ history[2].op = "update" /\ history[2].email = history[1].email
    /\ history[2].password # history[1].password
    /\ history[2].secret = "SECRET2"
    /\ history[3].op = "update" /\ history[3].email = history[1].email
    /\ history[3].secret = ""

TotpAgrees ==
    \A e \in Emails :
        /\ Cardinality(RowsOf(totp_file, e)) <= 1
        /\ \A i \in RowsOf(accounts_file, e) :
              /\ (RowsOf(totp_file, e) # {}) <=> (accounts_file[i].totp_secret # "")
              /\ \A k \in RowsOf(totp_file, e) :
                    totp_file[k].secret = accounts_file[i].totp_secret

\* C9 as claimed: after every completed save_account or update_account call
\* the TOTP collection has at most one entry per email, and an email has an
\* entry exactly when its row's totp_secret is non-empty, with that secret.
C9_TotpAgrees_Original == TotpAgrees

\* C9 amended: the same, for sequences in which save_account is called only
\* for emails that have no row yet.
C9_TotpAgrees == FreshSaves => TotpAgrees

\* a row saved with one secret and then updated to another
C9_Witness ==
    /\ Len(history) = 2
    /\ history[1].op = "save" /\ history[1].secret = "SECRET1"
    /\ history[2].op = "update" /\ history[2].email = history[1].email
    /\ history[2].secret = "SECRET2"
    /\ Len(totp_file) = 1

Last == history[Len(history)]

JustLoaded == loaded_at = Len(history)

\* save_account(record), load_accounts(): a row has record's email
SaveThenLoad ==
    (Len(history) >= 1 /\ JustLoaded /\ Last.op = "save")
        => \E i \in DOMAIN loaded : loaded[i].email = Last.email

\* ... update_account(same email, X), load_accounts(): one row, password X
SaveUpdateThenLoad(fresh) ==
    \A n \in DOMAIN history :
        (/\ n = Len(history) /\ n >= 2 /\ JustLoaded
         /\ history[n - 1].op = "save" /\ history[n].op = "update"
         /\ history[n].email = history[n - 1].email
         /\ fresh => \A j \in 1..(n - 2) : history[j].email # history[n].email)
        => /\ Cardinality(RowsOf(loaded, history[n].email)) = 1
           /\ \A i \in RowsOf(loaded, history[n].email) :
                 loaded[i].password = history[n].password

\* the same update_account call a second time changes nothing
UpdateTwice ==
    \A n \in DOMAIN history :
        (/\ n = Len(history) /\ n >= 2
         /\ history[n].op = "update" /\ history[n - 1] = history[n])
        => /\ accounts_file = prev_accounts
           /\ totp_file = prev_totp

\* C10 as claimed: for every record and password X, save_account(record)
\* then load_accounts() returns a row with record's email; update_account
\* for that email with X then load_accounts() returns exactly one row for
\* it, with password X; the same update_account again changes neither
\* collection.
C10_RoundTrip_Original == SaveThenLoad /\ SaveUpdateThenLoad(FALSE) /\ UpdateTwice

\* C10 amended: the same, when the store holds no row for record's email
\* before save_account(record) is called.
C10_RoundTrip == SaveThenLoad /\ SaveUpdateThenLoad(TRUE) /\ UpdateTwice

\* save, update with another password, the same update again, then a load
C10_Witness ==
    /\ Len(history) = 3 /\ JustLoaded
    /\ history[1].op = "save"
    /\ history[2].op = "update" /\ history[2].email = history[1].email
    /\ history[2].password # history[1].password
    /\ history[3] = history[2]
    /\ Len(loaded) = 1 /\ loaded[1].password = history[2].password

PersonalFields ==
    {"first_name", "last_name", "birth_year", "birth_month", "birth_day"}

\* row i of the collection got the change, the rest of the collection did not
ChangedInPlace(i) ==
    /\ Len(accounts_file) = Len(prev_accounts)
    /\ \A j \in DOMAIN prev_accounts :
          j # i => accounts_file[j] = prev_accounts[j]
    /\ \A c \in Columns \ {"password", "totp_secret"} :
          accounts_file[i][c] = prev_accounts[i][c]
    /\ accounts_file[i].password = Last.password
    /\ accounts_file[i].totp_secret =
          IF Last.secret # "" THEN Last.secret ELSE prev_accounts[i].totp_secret

\* one minimal row was appended, the rows that were there did not change
AppendedMinimal ==
    /\ Len(accounts_file) = Len(prev_accounts) + 1
    /\ \A j \in DOMAIN prev_accounts : accounts_file[j] = prev_accounts[j]
    /\ accounts_file[Len(accounts_file)].email = Last.email
    /\ accounts_file[Len(accounts_file)].password = Last.password
    /\ \A c \in PersonalFields : accounts_file[Len(accounts_file)][c] = ""

\* C11: update_account(change) changes nothing but the row for change.email.
\* When a row with that email exists, only its password (and its totp_secret,
\* when change carries a non-empty one) changes; every other field of that
\* row and every other row keeps its value and position.  When no row has
\* that email, exactly one minimal row (email, new password, empty personal
\* fields) is appended and every existing row is unchanged.
C11_UpdateFrame ==
    (Len(history) >= 1 /\ Last.op = "update") =>
        IF RowsOf(prev_accounts, Last.email) # {}
        THEN \E i \in RowsOf(prev_accounts, Last.email) : ChangedInPlace(i)
        ELSE AppendedMinimal

\* a save of one email, an update that appends the other email's minimal
\* row, then an update that changes that row next to the first one
C11_Witness ==
    /\ Len(history) = 3
    /\ history[1].op = "save" /\ history[1].secret # ""
    /\ history[2].op = "update" /\ history[2].email # history[1].email
    /\ history[3].op = "update" /\ history[3].email = history[2].email
    /\ history[3].password # history[2].password
    /\ history[3].secret # ""
    /\ Len(accounts_file) = 2
    /\ accounts_file[1] = prev_accounts[1]
    /\ accounts_file[2].password = history[3].password

----------------------------------------------------------------------------
(* ProxyManager.get_next_proxy, one statement per step *)

\* a mutated `with self.lock`: the block is entered whoever holds the lock
EnterProxyLockUnguarded(t) == lock' = t

\* `with self.lock`: blocks until the lock is free, then holds it
EnterProxyLock(t) == lock = 0 /\ lock' = t

\* `if not self.proxies: return None`, read without the lock
GetNextProxyTest(t, next_pc) ==
    /\ pc[t] = "get_next_proxy"
    /\ IF Len(proxies) = 0
       THEN /\ proxy' = [proxy EXCEPT ![t] = ""]
            /\ pc' = [pc EXCEPT ![t] = next_pc]
       ELSE /\ pc' = [pc EXCEPT ![t] = "proxy_lock"]
            /\ UNCHANGED proxy
    /\ UNCHANGED <<proxies, current_index, lock, issued>>

GetNextProxyLock(t) ==
    /\ pc[t] = "proxy_lock"
    /\ EnterProxyLock(t)
    /\ pc' = [pc EXCEPT ![t] = "proxy_read"]
    /\ UNCHANGED <<proxies, current_index, proxy, issued>>

\* proxy = self.proxies[self.current_index]
GetNextProxyRead(t) ==
    /\ pc[t] = "proxy_read"
    /\ current_index < Len(proxies)
    /\ proxy' = [proxy EXCEPT ![t] = proxies[current_index + 1]]
    /\ issued' = Append(issued, [proxy |-> proxies[current_index + 1],
                                 index |-> current_index])
    /\ pc' = [pc EXCEPT ![t] = "proxy_advance"]
    /\ UNCHANGED <<proxies, current_index, lock>>

\* self.current_index = (self.current_index + 1) % len(self.proxies)
GetNextProxyAdvance(t) ==
    /\ pc[t] = "proxy_advance"
    /\ current_index' = (current_index + 1) % Len(proxies)
    /\ pc' = [pc EXCEPT ![t] = "proxy_return"]
    /\ UNCHANGED <<proxies, lock, proxy, issued>>

\* return proxy: leaves the with block
GetNextProxyReturn(t, next_pc) ==
    /\ pc[t] = "proxy_return"
    /\ lock' = 0
    /\ pc' = [pc EXCEPT ![t] = next_pc]
    /\ UNCHANGED <<proxies, current_index, proxy, issued>>

GetNextProxy(t, next_pc) ==
    \/ GetNextProxyTest(t, next_pc)
    \/ GetNextProxyLock(t)
    \/ GetNextProxyRead(t)
    \/ GetNextProxyAdvance(t)
    \/ GetNextProxyReturn(t, next_pc)

----------------------------------------------------------------------------
(* ProxySpec: threads calling get_next_proxy on a pool that does not change *)

\* ProxyManager(proxies) with 0 to 3 distinct endpoints
Pools == {SubSeq(Endpoints, 1, n) : n \in 0..Len(Endpoints)}

ProxyInit ==
    /\ proxies \in Pools
    /\ current_index = 0
    /\ lock = 0
    /\ EmptyStore /\ NoBatch /\ IdleThreads /\ NoHistory /\ NoSynth

InCall(t) == pc[t] # "idle"

\* a thread calls get_next_proxy
ProxyCall(t) ==
    /\ pc[t] = "idle"
    /\ Len(issued) + Cardinality({u \in Threads : InCall(u)}) < MaxIssued
    /\ pc' = [pc EXCEPT ![t] = "get_next_proxy"]
    /\ UNCHANGED <<proxyVars, proxy, issued>>

\* what no step of get_next_proxy touches
proxyFrame ==
    <<storeVars, batchVars, task, account_info, exc, accounts, totp_data,
      open_sessions, history, prev_accounts, prev_totp, loaded,
      loaded_at, synthVars>>

ProxyNext ==
    \E t \in Threads :
        \/ ProxyCall(t) /\ UNCHANGED proxyFrame
        \/ GetNextProxyTest(t, "idle") /\ UNCHANGED proxyFrame
        \/ GetNextProxyLock(t) /\ UNCHANGED proxyFrame
        \/ GetNextProxyRead(t) /\ UNCHANGED proxyFrame
        \/ GetNextProxyAdvance(t) /\ UNCHANGED proxyFrame
        \/ GetNextProxyReturn(t, "idle") /\ UNCHANGED proxyFrame

ProxySpec == ProxyInit /\ [][ProxyNext]_vars

\* C7: on a fixed pool of n >= 1 endpoints with the cursor at 0, the k-th
\* get_next_proxy call (k = 0, 1, ..., in the order the callers hold the
\* lock) reads cursor k mod n and returns pool[k mod n], for sequential and
\* for concurrent callers; no endpoint is returned twice in a row unless
\* n = 1.
C7_RoundRobin ==
    /\ \A k \in DOMAIN issued :
          /\ issued[k].index = (k - 1) % Len(proxies)
          /\ issued[k].proxy = proxies[((k - 1) % Len(proxies)) + 1]
    /\ \A k \in DOMAIN issued :
          (k + 1 \in DOMAIN issued /\ Len(proxies) # 1)
              => issued[k].proxy # issued[k + 1].proxy

\* a pool of three has been gone round once and started again, while
\* another caller waits for the lock
C7_Witness ==
    /\ Len(proxies) = 3
    /\ Len(issued) = 4
    /\ issued[4].proxy = proxies[1]
    /\ \E t \in Threads : pc[t] = "proxy_lock"

----------------------------------------------------------------------------
(* save_account and update_account, one file operation per step *)

\* a mutated `with LOCK`: the block is entered whoever holds the lock
EnterStoreLockUnguarded(t) == LOCK' = t

\* `with LOCK`: blocks until the lock is free, then holds it
EnterStoreLock(t) == LOCK = 0 /\ LOCK' = t

HasSecret(t) == Truthy(Get(account_info[t], "totp_secret", ""))

StoreLock(t) ==
    /\ pc[t] \in {"save_account", "update_account"}
    /\ EnterStoreLock(t)
    /\ pc' = [pc EXCEPT ![t] = IF pc[t] = "save_account"
                               THEN "save_append" ELSE "update_read"]
    /\ UNCHANGED <<accounts_file, totp_file, accounts, totp_data, history>>

\* open(accounts_file, 'a') ... writer.writerow([...])
SaveAppend(t) ==
    /\ pc[t] = "save_append"
    /\ accounts_file' = SaveAccountsFile(accounts_file, account_info[t])
    /\ pc' = [pc EXCEPT ![t] = IF HasSecret(t) THEN "save_totp_read"
                                              ELSE "store_unlock"]
    /\ UNCHANGED <<totp_file, LOCK, accounts, totp_data, history>>

\* totp_data = json.load(f); totp_data.append(totp_info)
SaveTotpRead(t) ==
    /\ pc[t] = "save_totp_read"
    /\ totp_data' = [totp_data EXCEPT ![t] =
                        Append(totp_file, SaveTotpInfo(account_info[t]))]
    /\ pc' = [pc EXCEPT ![t] = "totp_write"]
    /\ UNCHANGED <<accounts_file, totp_file, LOCK, accounts, history>>

\* accounts = rows of csv.DictReader(f), then the update loop on the list
UpdateRead(t) ==
    /\ pc[t] = "update_read"
    /\ accounts' = [accounts EXCEPT ![t] =
                        UpdateRows(ReadRows(accounts_file), account_info[t])]
    /\ pc' = [pc EXCEPT ![t] = "update_open"]
    /\ UNCHANGED <<accounts_file, totp_file, LOCK, totp_data, history>>

\* open(accounts_file, 'w'): the file is truncated before anything is written
UpdateOpen(t) ==
    /\ pc[t] = "update_open"
    /\ accounts_file' = <<>>
    /\ pc' = [pc EXCEPT ![t] = "update_write"]
    /\ UNCHANGED <<totp_file, LOCK, accounts, totp_data, history>>

\* writer.writeheader(); writer.writerows(accounts); the file is closed
UpdateWrite(t) ==
    /\ pc[t] = "update_write"
    /\ accounts_file' = WriteRows(accounts[t])
    /\ accounts' = [accounts EXCEPT ![t] = <<>>]
    /\ pc' = [pc EXCEPT ![t] = IF HasSecret(t) THEN "update_totp_read"
                                              ELSE "store_unlock"]
    /\ UNCHANGED <<totp_file, LOCK, totp_data, history>>

\* totp_data = json.load(f), then the update loop on the list
UpdateTotpRead(t) ==
    /\ pc[t] = "update_totp_read"
    /\ totp_data' = [totp_data EXCEPT ![t] = UpdateTotp(totp_file, account_info[t])]
    /\ pc' = [pc EXCEPT ![t] = "totp_write"]
    /\ UNCHANGED <<accounts_file, totp_file, LOCK, accounts, history>>

\* open(totp_file, 'w') ... json.dump(totp_data, f)
TotpWrite(t) ==
    /\ pc[t] = "totp_write"
    /\ totp_file' = totp_data[t]
    /\ totp_data' = [totp_data EXCEPT ![t] = <<>>]
    /\ pc' = [pc EXCEPT ![t] = "store_unlock"]
    /\ UNCHANGED <<accounts_file, LOCK, accounts, history>>

\* leaving the with block; the call returns
StoreUnlock(t) ==
    /\ pc[t] = "store_unlock"
    /\ LOCK' = 0
    /\ pc' = [pc EXCEPT ![t] = "done"]
    /\ history' = Append(history,
            IF "new_password" \in DOMAIN account_info[t]
            THEN Called("update", account_info[t]["email"],
                        account_info[t]["new_password"],
                        account_info[t]["totp_secret"])
            ELSE Called("save", account_info[t]["email"],
                        account_info[t]["password"],
                        account_info[t]["totp_secret"]))
    /\ UNCHANGED <<accounts_file, totp_file, accounts, totp_data>>

----------------------------------------------------------------------------
(* StoreConcSpec: every thread makes one save_account or update_account    *)
(* call on the same files                                                  *)

ConcSecrets == {"", "SECRET1"}

\* what no step of a store call touches
concFrame ==
    <<proxyVars, batchVars, task, proxy, exc, open_sessions, prev_accounts,
      prev_totp, loaded, loaded_at, issued, export_file, other_file,
      synthVars>>

ConcSave(t) ==
    \E e \in Emails, p \in Passwords, s \in ConcSecrets :
        /\ pc[t] = "idle"
        /\ account_info' = [account_info EXCEPT ![t] = CreatedAccount(e, p, s)]
        /\ pc' = [pc EXCEPT ![t] = "save_account"]
        /\ UNCHANGED <<storeVars, accounts, totp_data, history>>

ConcUpdate(t) ==
    \E e \in Emails, p \in Passwords, s \in ConcSecrets :
        /\ pc[t] = "idle"
        /\ account_info' = [account_info EXCEPT ![t] = ChangedAccount(e, "old", p, s)]
        /\ pc' = [pc EXCEPT ![t] = "update_account"]
        /\ UNCHANGED <<storeVars, accounts, totp_data, history>>

StoreConcNext ==
    \E t \in Threads :
        \/ ConcSave(t) /\ UNCHANGED concFrame
        \/ ConcUpdate(t) /\ UNCHANGED concFrame
        \/ StoreLock(t) /\ UNCHANGED <<concFrame, account_info>>
        \/ SaveAppend(t) /\ UNCHANGED <<concFrame, account_info>>
        \/ SaveTotpRead(t) /\ UNCHANGED <<concFrame, account_info>>
        \/ UpdateRead(t) /\ UNCHANGED <<concFrame, account_info>>
        \/ UpdateOpen(t) /\ UNCHANGED <<concFrame, account_info>>
        \/ UpdateWrite(t) /\ UNCHANGED <<concFrame, account_info>>
        \/ UpdateTotpRead(t) /\ UNCHANGED <<concFrame, account_info>>
        \/ TotpWrite(t) /\ UNCHANGED <<concFrame, account_info>>
        \/ StoreUnlock(t) /\ UNCHANGED <<concFrame, account_info>>

StoreConcSpec == StoreInit /\ [][StoreConcNext]_vars

\* the dict a recorded call was made with
InfoOf(call) ==
    IF call.op = "save"
    THEN CreatedAccount(call.email, call.password, call.secret)
    ELSE ChangedAccount(call.email, "old", call.password, call.secret)

\* the two collections after the calls are made one after the other on an
\* empty store
RECURSIVE SerialResult(_)
SerialResult(calls) ==
    IF calls = <<>> THEN <<(<<>>), (<<>>)>>
    ELSE LET before == SerialResult(SubSeq(calls, 1, Len(calls) - 1))
             info == InfoOf(calls[Len(calls)])
         IN  IF calls[Len(calls)].op = "save"
             THEN <<SaveAccountsFile(before[1], info), SaveTotpFile(before[2], info)>>
             ELSE <<UpdateAccountsFile(before[1], info), UpdateTotpFile(before[2], info)>>

Quiescent == \A t \in Threads : pc[t] \in {"idle", "done"}

\* C6: whenever no save_account or update_account call is in progress, the
\* account collection and the TOTP collection are what some serial order of
\* the calls made so far leaves; and at most one thread is ever between
\* acquiring and releasing the store lock.
C6_Serializable ==
    /\ Quiescent =>
          \E f \in Permutations(DOMAIN history) :
              <<accounts_file, totp_file>> =
                  SerialResult([i \in DOMAIN history |-> history[f[i]]])
    /\ \A t, u \in Threads :
          (t # u /\ pc[t] \notin {"idle", "done", "save_account", "update_account"})
              => pc[u] \in {"idle", "done", "save_account", "update_account"}

\* two updates of different emails have both completed, the second having
\* waited for the lock while the first was between its read and its write
C6_Witness ==
    /\ Quiescent
    /\ Len(history) >= 2
    /\ history[1].op = "update" /\ history[2].op = "update"
    /\ history[1].email # history[2].email
    /\ Len(accounts_file) = 2

----------------------------------------------------------------------------
(* create_accounts / change_passwords: the main thread and the workers     *)

JobEmails == <<"a@outlook.com", "b@outlook.com", "c@outlook.com", "d@outlook.com">>

\* the address job j is about: generated by create_outlook_account, or
\* account["email"] of the j-th account handed to change_passwords
EmailOf(j) == JobEmails[j]

\* a mutated thread count: range(threads), whatever the number of jobs
MinIgnoresJobs(a, b) == a

\* min(a, b)
Min(a, b) == IF a < b THEN a ELSE b

\* the rows of the accounts the change command was given
GivenAccounts(n) ==
    [j \in 1..n |-> SaveRow(CreatedAccount(EmailOf(j), "pw1", ""))]

\* the pools a batch is run with: none (direct connections) or two proxies
BatchPools == {p \in Pools : Len(p) \in {0, 2}}

\* the worker counts a batch is run with (-t)
WorkerCounts == {1, 2}

BatchInit ==
    /\ command \in {"create", "change"}
    /\ count \in 0..MaxJobs
    /\ threads \in WorkerCounts
    /\ proxies \in BatchPools
    /\ current_index = 0
    /\ lock = 0
    /\ task_queue = [j \in 1..count |-> j]
    /\ result_queue = <<>>
    /\ results = <<>>
    /\ main_pc = "start"
    /\ thread_list = 0
    /\ args_email = ""
    /\ exit_code = -1
    /\ args_file = "default"
    /\ accounts_file = IF command = "change" THEN GivenAccounts(count) ELSE <<>>
    /\ totp_file = <<>>
    /\ export_file = <<>>
    /\ other_file = <<>>
    /\ LOCK = 0
    /\ IdleThreads
    /\ NoHistory
    /\ NoSynth

\* what no step of a batch touches
batchFrame ==
    <<LOCK, lock, accounts, totp_data, history, prev_accounts, prev_totp,
      loaded, loaded_at, command, count, threads, proxies, args_email,
      exit_code, args_file, export_file, other_file, synthVars>>

workerLocals == <<task, proxy, account_info, exc>>

\* t = threading.Thread(target=worker, ...); t.start(); thread_list.append(t)
StartThread ==
    /\ main_pc = "start"
    /\ thread_list < Min(threads, count)
    /\ thread_list' = thread_list + 1
    /\ pc' = [pc EXCEPT ![thread_list + 1] = "test"]
    /\ UNCHANGED <<batchFrame, workerLocals, open_sessions, accounts_file,
                   totp_file, current_index, task_queue, result_queue,
                   results, main_pc, issued>>

\* the loop over range(min(threads, count)) ends
StartDone ==
    /\ main_pc = "start"
    /\ thread_list = Min(threads, count)
    /\ main_pc' = "join"
    /\ UNCHANGED <<batchFrame, workerLocals, open_sessions, accounts_file,
                   totp_file, current_index, task_queue, result_queue,
                   results, thread_list, pc, issued>>

\* for t in thread_list: t.join()
JoinAll ==
    /\ main_pc = "join"
    /\ \A t \in 1..thread_list : pc[t] = "exit"
    /\ main_pc' = "collect"
    /\ UNCHANGED <<batchFrame, workerLocals, open_sessions, accounts_file,
                   totp_file, current_index, task_queue, result_queue,
                   results, thread_list, pc, issued>>

\* while not result_queue.empty(): results.append(result_queue.get()); return
Collect ==
    /\ main_pc = "collect"
    /\ results' = result_queue
    /\ result_queue' = <<>>
    /\ main_pc' = "returned"
    /\ UNCHANGED <<batchFrame, workerLocals, open_sessions, accounts_file,
                   totp_file, current_index, task_queue, thread_list, pc,
                   issued>>

\* while not task_queue.empty():
WorkerTest(t) ==
    /\ pc[t] = "test"
    /\ pc' = [pc EXCEPT ![t] = IF task_queue = <<>> THEN "exit" ELSE "get"]
    /\ UNCHANGED <<batchFrame, workerLocals, open_sessions, accounts_file,
                   totp_file, current_index, task_queue, result_queue,
                   results, main_pc, thread_list, issued>>

\* task_queue.get(): blocks while the queue is empty
WorkerGet(t) ==
    /\ pc[t] = "get"
    /\ task_queue # <<>>
    /\ task' = [task EXCEPT ![t] = Head(task_queue)]
    /\ task_queue' = Tail(task_queue)
    /\ pc' = [pc EXCEPT ![t] = "proxy"]
    /\ UNCHANGED <<batchFrame, proxy, account_info, exc, open_sessions, accounts_file, totp_file, current_index, result_queue,
                   results, main_pc, thread_list, issued>>

\* a mutated get_next_proxy: the pool is indexed without the emptiness test
PoolIsEmptyUntested == FALSE

\* `if not self.proxies`
PoolIsEmpty == Len(proxies) = 0

\* proxy = proxy_manager.get_next_proxy(), the whole call as one step:
\* None on an empty pool, else the endpoint under the cursor; indexing past
\* the end of the list raises IndexError inside the worker's try statement
WorkerProxy(t) ==
    /\ pc[t] = "proxy"
    /\ IF PoolIsEmpty
       THEN /\ proxy' = [proxy EXCEPT ![t] = ""]
            /\ pc' = [pc EXCEPT ![t] = "open"]
            /\ UNCHANGED <<current_index, issued, exc>>
       ELSE IF current_index < Len(proxies)
       THEN /\ proxy' = [proxy EXCEPT ![t] = proxies[current_index + 1]]
            /\ current_index' = (current_index + 1) % Len(proxies)
            /\ issued' = Append(issued, [proxy |-> proxies[current_index + 1],
                                         index |-> current_index])
            /\ pc' = [pc EXCEPT ![t] = "open"]
            /\ UNCHANGED exc
       ELSE /\ exc' = [exc EXCEPT ![t] = TRUE]
            /\ pc' = [pc EXCEPT ![t] = "except"]
            /\ UNCHANGED <<proxy, current_index, issued>>
    /\ UNCHANGED <<batchFrame, task, account_info, open_sessions,
                   accounts_file, totp_file, task_queue, result_queue,
                   results, main_pc, thread_list>>

\* setup_driver: the --proxy-server option is added only for a proxy that is
\* not None; without it the browser connects directly
ProxyServerOption(p) == IF Truthy(p) THEN <<"--proxy-server=socks5://", p>> ELSE <<>>

\* creator = OutlookCreator(proxy=proxy, headless=headless): setup_driver
\* starts the browser
WorkerOpen(t) ==
    /\ pc[t] = "open"
    /\ open_sessions' = open_sessions \cup {<<t, task[t]>>}
    /\ pc' = [pc EXCEPT ![t] = "run"]
    /\ UNCHANGED <<batchFrame, workerLocals, accounts_file,
                   totp_file, current_index, task_queue, result_queue,
                   results, main_pc, thread_list, issued>>

\* setup_driver raises: no creator, the outer except clause is next
WorkerOpenRaises(t) ==
    /\ pc[t] = "open"
    /\ exc' = [exc EXCEPT ![t] = TRUE]
    /\ pc' = [pc EXCEPT ![t] = "except"]
    /\ UNCHANGED <<batchFrame, task, proxy, account_info, open_sessions, accounts_file, totp_file, current_index, task_queue,
                   result_queue, results, main_pc, thread_list, issued>>

\* the dict the job procedure returns when every step went through;
\* totp_secret is "" when bind_totp failed
ProcedureResult(t, secret) ==
    IF command = "create"
    THEN CreatedAccount(EmailOf(task[t]), "pw1", secret)
    ELSE ChangedAccount(EmailOf(task[t]), "pw1", "pw2", secret)

\* a mutated worker: the result is pushed without the store call
AfterProcedureSkipStore(info) == "put"

\* if "error" not in account_info: the store call, then result_queue.put;
\* else result_queue.put alone
AfterProcedure(info) == IF "error" \in DOMAIN info THEN "put" ELSE "store"

\* account_info = creator.create_outlook_account() / creator.change_password(...)
WorkerRun(t) ==
    \E secret \in ConcSecrets :
        /\ pc[t] = "run"
        /\ account_info' = [account_info EXCEPT ![t] = ProcedureResult(t, secret)]
        /\ pc' = [pc EXCEPT ![t] = AfterProcedure(ProcedureResult(t, secret))]
        /\ UNCHANGED <<batchFrame, task, proxy, exc, open_sessions, accounts_file, totp_file, current_index, task_queue,
                       result_queue, results, main_pc, thread_list, issued>>

\* the procedure caught an exception and returned the dict with "error"
WorkerRunError(t) ==
    /\ pc[t] = "run"
    /\ account_info' = [account_info EXCEPT ![t] = WithError(ProcedureResult(t, ""))]
    /\ pc' = [pc EXCEPT ![t] = AfterProcedure(WithError(ProcedureResult(t, "")))]
    /\ UNCHANGED <<batchFrame, task, proxy, exc, open_sessions, accounts_file,
                   totp_file, current_index, task_queue, result_queue,
                   results, main_pc, thread_list, issued>>

\* account_manager.save_account(account_info) / update_account(account_info),
\* the whole call as one step under LOCK
WorkerStore(t) ==
    /\ pc[t] = "store"
    /\ LOCK = 0
    /\ IF command = "create"
       THEN SaveAccount(account_info[t])
       ELSE UpdateAccount(account_info[t])
    /\ pc' = [pc EXCEPT ![t] = "put"]
    /\ UNCHANGED <<batchFrame, workerLocals, open_sessions, current_index,
                   task_queue, result_queue, results, main_pc, thread_list,
                   issued>>

\* the store call raises on opening the CSV file: nothing is written
WorkerStoreRaises(t) ==
    /\ pc[t] = "store"
    /\ LOCK = 0
    /\ exc' = [exc EXCEPT ![t] = TRUE]
    /\ pc' = [pc EXCEPT ![t] = "close"]
    /\ UNCHANGED <<batchFrame, task, proxy, account_info, open_sessions, accounts_file, totp_file, current_index, task_queue,
                   result_queue, results, main_pc, thread_list, issued>>

\* the store call raises on the TOTP file, after the CSV file was written
WorkerStoreRaisesLate(t) ==
    /\ pc[t] = "store"
    /\ LOCK = 0
    /\ Truthy(Get(account_info[t], "totp_secret", ""))
    /\ accounts_file' = IF command = "create"
                        THEN SaveAccountsFile(accounts_file, account_info[t])
                        ELSE UpdateAccountsFile(accounts_file, account_info[t])
    /\ exc' = [exc EXCEPT ![t] = TRUE]
    /\ pc' = [pc EXCEPT ![t] = "close"]
    /\ UNCHANGED <<batchFrame, task, proxy, account_info, open_sessions, totp_file, current_index, task_queue, result_queue,
                   results, main_pc, thread_list, issued>>

\* a result as the collector holds it; job records which job pushed it
Result(j, info) ==
    [job   |-> j,
     email |-> Get(info, "email", Absent),
     error |-> "error" \in DOMAIN info]

\* result_queue.put(account_info)
WorkerPut(t) ==
    /\ pc[t] = "put"
    /\ result_queue' = Append(result_queue, Result(task[t], account_info[t]))
    /\ pc' = [pc EXCEPT ![t] = "close"]
    /\ UNCHANGED <<batchFrame, workerLocals, open_sessions, accounts_file,
                   totp_file, current_index, task_queue, results, main_pc,
                   thread_list, issued>>

\* where the worker goes once the job's try statement is left
NextJob == "test"

\* a mutated worker: an exception ends the worker's loop
NextAfterFailureExit(t) == "exit"

\* after the outer except clause: finally task_done(), then the loop test
NextAfterFailure(t) == NextJob

\* a mutated worker: close() is called on the success path only
SessionsAfterCloseOnSuccess(t) ==
    IF exc[t] THEN open_sessions ELSE open_sessions \ {<<t, task[t]>>}

\* finally: creator.close(), which quits the driver
SessionsAfterClose(t) == open_sessions \ {<<t, task[t]>>}

WorkerClose(t) ==
    /\ pc[t] = "close"
    /\ open_sessions' = SessionsAfterClose(t)
    /\ pc' = [pc EXCEPT ![t] = IF exc[t] THEN "except" ELSE NextJob]
    /\ account_info' = [account_info EXCEPT ![t] = NoInfo]
    /\ task' = [task EXCEPT ![t] = IF exc[t] THEN @ ELSE 0]
    /\ proxy' = [proxy EXCEPT ![t] = IF exc[t] THEN @ ELSE ""]
    /\ UNCHANGED <<batchFrame, exc, accounts_file,
                   totp_file, current_index, task_queue, result_queue,
                   results, main_pc, thread_list, issued>>

\* driver.quit() raises: the browser may or may not be gone, and the session
\* is no longer counted as open
WorkerCloseRaises(t) ==
    /\ pc[t] = "close"
    /\ open_sessions' = open_sessions \ {<<t, task[t]>>}
    /\ exc' = [exc EXCEPT ![t] = TRUE]
    /\ pc' = [pc EXCEPT ![t] = "except"]
    /\ account_info' = [account_info EXCEPT ![t] = NoInfo]
    /\ UNCHANGED <<batchFrame, task, proxy, accounts_file, totp_file,
                   current_index, task_queue, result_queue, results, main_pc,
                   thread_list, issued>>

\* the dict the outer except clause pushes
ExceptResult(t) ==
    IF command = "create"
    THEN [error |-> ErrText]
    ELSE [email |-> EmailOf(task[t]), error |-> ErrText]

\* except Exception as e: result_queue.put({...}); finally: task_done()
WorkerExcept(t) ==
    /\ pc[t] = "except"
    /\ result_queue' = Append(result_queue, Result(task[t], ExceptResult(t)))
    /\ exc' = [exc EXCEPT ![t] = FALSE]
    /\ pc' = [pc EXCEPT ![t] = NextAfterFailure(t)]
    /\ account_info' = [account_info EXCEPT ![t] = NoInfo]
    /\ task' = [task EXCEPT ![t] = 0]
    /\ proxy' = [proxy EXCEPT ![t] = ""]
    /\ UNCHANGED <<batchFrame, open_sessions, accounts_file, totp_file, current_index, task_queue,
                   results, main_pc, thread_list, issued>>

Worker(t) ==
    \/ WorkerTest(t)
    \/ WorkerGet(t)
    \/ WorkerProxy(t)
    \/ WorkerOpen(t)
    \/ WorkerOpenRaises(t)
    \/ WorkerRun(t)
    \/ WorkerRunError(t)
    \/ WorkerStore(t)
    \/ WorkerStoreRaises(t)
    \/ WorkerStoreRaisesLate(t)
    \/ WorkerPut(t)
    \/ WorkerClose(t)
    \/ WorkerCloseRaises(t)
    \/ WorkerExcept(t)

Main == StartThread \/ StartDone \/ JoinAll \/ Collect

Next == Main \/ \E t \in Threads : Worker(t)

Init == BatchInit

Spec == Init /\ [][Next]_vars

----------------------------------------------------------------------------
(* Claims about a batch run *)

AllResults == result_queue \o results

ResultsOf(j) == {i \in DOMAIN AllResults : AllResults[i].job = j}

HasResult(j) == ResultsOf(j) # {}

\* no thread can take a step: every started worker has left its loop or is
\* blocked in task_queue.get(), and the main thread has returned or waits
\* in join()
Stopped ==
    /\ main_pc \in {"join", "returned"}
    /\ main_pc = "join" => \E t \in 1..thread_list : pc[t] # "exit"
    /\ \A t \in Threads :
          \/ pc[t] \in {"idle", "exit"}
          \/ pc[t] = "get" /\ task_queue = <<>>

\* Stopped says that no step is enabled
StoppedIsNoStep == Stopped <=> ~ENABLED Next

\* C1: for every batch of N >= 1 jobs, every worker count >= 1 and every
\* combination of per-job outcomes, the collection the run returns holds
\* exactly N results, one for each job.
C1_OneResultPerJob ==
    (main_pc = "returned" /\ count >= 1) =>
        /\ Len(results) = count
        /\ \A j \in 1..count : Cardinality(ResultsOf(j)) = 1

\* C2: under fair scheduling every worker exits and the run returns, in
\* every interleaving of the workers' queue-empty test and dequeue step.
\* Every step of a run lowers Variant, so a fair run goes on until no thread
\* can take a step, and the claim is that it has returned by then.
C2_RunReturns == Stopped => main_pc = "returned"

\* how far each thread is from the end of its current job, and the run from
\* its end
PcRank(p) ==
    CASE p = "proxy"  -> 12
      [] p = "open"   -> 11
      [] p = "run"    -> 10
      [] p = "store"  -> 9
      [] p = "put"    -> 8
      [] p = "close"  -> 7
      [] p = "except" -> 6
      [] p = "test"   -> 2
      [] p = "get"    -> 1
      [] OTHER        -> 0

MainRank ==
    CASE main_pc = "start"   -> 3
      [] main_pc = "join"    -> 2
      [] main_pc = "collect" -> 1
      [] OTHER               -> 0

RECURSIVE SumRank(_)
SumRank(S) ==
    IF S = {} THEN 0
    ELSE LET t == CHOOSE x \in S : TRUE IN PcRank(pc[t]) + SumRank(S \ {t})

Variant ==
    SumRank(Threads) + 20 * Len(task_queue)
        + 5 * (Min(threads, count) - thread_list) + MainRank

FailureRecorded == \E i \in DOMAIN AllResults : AllResults[i].error

\* C3: a job that fails (the procedure returns an error, or the session
\* cannot be started) stops neither its own worker nor another: the worker
\* records a failure result and tests the queue again, and every job still
\* queued is later dequeued and run to a result. Every step lowers Variant,
\* so a fair run goes on until no thread can take a step; once a failure
\* has been recorded, the queue is then empty and every job has a result.
C3_FailureDoesNotStop ==
    /\ [](FailureRecorded /\ Stopped =>
            /\ task_queue = <<>>
            /\ \A j \in 1..count : HasResult(j))
    /\ [][Variant' < Variant]_vars
    /\ [][\A t \in Threads :
            (pc[t] = "except" /\ pc'[t] # "except") =>
                /\ pc'[t] = "test"
                /\ Len(result_queue') = Len(result_queue) + 1
                /\ result_queue'[Len(result_queue')].error]_vars

\* one worker, two jobs: the first failed because its session could not be
\* started, the second was run to a result afterwards
C3_Witness ==
    /\ threads = 1 /\ count = 2
    /\ Len(AllResults) = 2
    /\ AllResults[1].job = 1 /\ AllResults[1].error
    /\ AllResults[2].job = 2
    /\ main_pc = "returned"

\* the rows and TOTP entries of the batch's own jobs
SuccessEmails == {AllResults[i].email : i \in {k \in DOMAIN AllResults : ~AllResults[k].error}}

\* job j has left the account collection and the TOTP collection as the run
\* found them
Untouched(j) ==
    /\ RowsOf(totp_file, EmailOf(j)) = {}
    /\ IF command = "create"
       THEN RowsOf(accounts_file, EmailOf(j)) = {}
       ELSE \A i \in RowsOf(accounts_file, EmailOf(j)) :
                accounts_file[i] = GivenAccounts(count)[j]

\* C5: when a batch has completed, the store holds a row for the email of
\* every job whose result carries no error, with no duplicates and none
\* missing, and a job whose result carries an error has left the account
\* collection and the TOTP collection as they were.
C5_StoreMatchesResults ==
    main_pc = "returned" =>
        /\ \A e \in SuccessEmails : Cardinality(RowsOf(accounts_file, e)) = 1
        /\ command = "create" =>
              \A i \in DOMAIN accounts_file : accounts_file[i].email \in SuccessEmails
        /\ \A i \in DOMAIN results : results[i].error => Untouched(results[i].job)

C12_FailuresCarryEmail ==
    \A i \in DOMAIN AllResults :
        AllResults[i].error => AllResults[i].email = EmailOf(AllResults[i].job)

\* the jobs that have been taken off the queue
Dequeued == {j \in 1..count : \A i \in DOMAIN task_queue : task_queue[i] # j}

\* C13: on an empty pool get_next_proxy returns None and leaves the pool and
\* the cursor unchanged, and a job that receives None still opens a direct
\* (proxy-less) session and runs to a result: with an empty pool no job is
\* failed because of the missing proxy, and every job that was dequeued has a
\* result when the run has stopped, as with a non-empty pool.
C13_EmptyPool ==
    /\ [](proxies = <<>> =>
            /\ current_index = 0 /\ issued = <<>>
            /\ \A t \in Threads : proxy[t] = ""
            /\ \A s \in open_sessions : ProxyServerOption(proxy[s[1]]) = <<>>)
    /\ [][\A t \in Threads :
            (proxies = <<>> /\ pc[t] = "proxy" /\ pc'[t] # "proxy") =>
                /\ pc'[t] = "open" /\ ~exc'[t]
                /\ proxy'[t] = ""
                /\ proxies' = proxies /\ current_index' = current_index
                /\ result_queue' = result_queue]_vars
    /\ [][\A t \in Threads :
            (proxies = <<>> /\ pc[t] = "open" /\ pc'[t] = "run") =>
                <<t, task[t]>> \in open_sessions']_vars
    /\ []((Stopped /\ proxies = <<>>) => \A j \in Dequeued : HasResult(j))
    /\ []((Stopped /\ proxies # <<>>) => \A j \in Dequeued : HasResult(j))

\* a batch of two jobs has run on an empty pool and returned two results
\* without an error
C13_Witness ==
    /\ proxies = <<>> /\ count = 2
    /\ main_pc = "returned"
    /\ Len(results) = 2
    /\ \A i \in DOMAIN results : ~results[i].error

----------------------------------------------------------------------------
(* InterruptSpec: a batch run during which Ctrl-C may arrive               *)

\* KeyboardInterrupt is raised in the main thread while the batch runs; it
\* leaves create_accounts / change_passwords and main() and is caught by the
\* handler under `if __name__ == "__main__"`
Interrupt ==
    /\ main_pc \in {"start", "join", "collect"}
    /\ main_pc' = "interrupted"
    /\ UNCHANGED <<batchFrame, workerLocals, open_sessions, accounts_file,
                   totp_file, current_index, task_queue, result_queue,
                   results, thread_list, pc, issued>>

\* the handler logs and the interpreter exits: the workers are daemon
\* threads (t.daemon = True) and end where they are
ProgramExit ==
    /\ main_pc = "interrupted"
    /\ main_pc' = "exited"
    /\ pc' = [t \in Threads |->
                 IF pc[t] \in {"idle", "exit"} THEN pc[t] ELSE "killed"]
    /\ UNCHANGED <<batchFrame, workerLocals, open_sessions, accounts_file,
                   totp_file, current_index, task_queue, result_queue,
                   results, thread_list, issued>>

InterruptNext ==
    \/ Main
    \/ \E t \in Threads : Worker(t)
    \/ Interrupt
    \/ ProgramExit

InterruptSpec == Init /\ [][InterruptNext]_vars

\* C14: when an external interrupt arrives while a batch is running, every
\* job a worker has already started runs to its result (with its session
\* released and its result persisted), and the program returns only after
\* every in-flight worker has been joined: when the program has ended, no
\* worker was cut off, no session is open and every dequeued job has a result.
C14_InterruptJoinsWorkers ==
    main_pc = "exited" =>
        /\ \A t \in 1..thread_list : pc[t] = "exit"
        /\ open_sessions = {}
        /\ \A j \in Dequeued : HasResult(j)

----------------------------------------------------------------------------
(* CommandSpec: main() for the create and the change command, from the     *)
(* parsed arguments to the exit of the program                             *)

\* the content of the accounts file of AccountManager(args.file): -f names
\* the default accounts file or another file
ArgsFile == IF args_file = "other" THEN other_file ELSE accounts_file

\* -e: not given, the address of the file's first account, or an address no
\* row has
RequestedEmails == {"", JobEmails[1], "nobody@outlook.com"}

CommandInit ==
    /\ command \in {"create", "change"}
    /\ threads \in WorkerCounts
    /\ proxies \in BatchPools
    /\ current_index = 0
    /\ lock = 0
    /\ count \in (IF command = "create" THEN 0..MaxJobs ELSE {0})
    /\ args_email \in (IF command = "change" THEN RequestedEmails ELSE {""})
    /\ args_file \in (IF command = "change" THEN {"default", "other"}
                                             ELSE {"default"})
    /\ \E n \in (IF command = "change" THEN 0..MaxJobs ELSE {0}) :
          /\ accounts_file = IF args_file = "default" THEN GivenAccounts(n) ELSE <<>>
          /\ other_file = IF args_file = "other" THEN GivenAccounts(n) ELSE <<>>
    /\ totp_file = <<>>
    /\ export_file = <<>>
    /\ LOCK = 0
    /\ task_queue = <<>>
    /\ result_queue = <<>>
    /\ results = <<>>
    /\ main_pc = "main"
    /\ thread_list = 0
    /\ exit_code = -1
    /\ IdleThreads
    /\ NoHistory
    /\ NoSynth

\* what main() changes outside the batch
commandFrame ==
    <<LOCK, lock, accounts, totp_data, history, prev_accounts, prev_totp,
      loaded, loaded_at, command, threads, proxies, args_email,
      workerLocals, open_sessions, accounts_file, totp_file, current_index,
      result_queue, results, thread_list, pc, issued, args_file, export_file,
      other_file, synthVars>>

\* args.command == "create": create_accounts(args.count, ...) fills the queue
MainCreate ==
    /\ main_pc = "main" /\ command = "create"
    /\ task_queue' = [j \in 1..count |-> j]
    /\ main_pc' = "start"
    /\ UNCHANGED <<commandFrame, count, exit_code>>

\* accounts = [a for a in accounts if a["email"] == args.email]
SelectAccounts(rows) ==
    IF Truthy(args_email)
    THEN SelectSeq(rows, LAMBDA a : a["email"] = args_email)
    ELSE rows

\* args.command == "change": the accounts are loaded (an accounts file that
\* does not exist is created empty by the constructor) and filtered; with -e
\* and no row left main() logs and returns, else change_passwords(accounts,
\* ...) fills the queue
MainChange ==
    /\ main_pc = "main" /\ command = "change"
    /\ LET selected == SelectAccounts(LoadAccounts(ArgsFile)) IN
       IF Truthy(args_email) /\ selected = <<>>
       THEN /\ main_pc' = "done"
            /\ exit_code' = 0
            /\ UNCHANGED <<count, task_queue>>
       ELSE /\ count' = Len(selected)
            /\ task_queue' = [j \in 1..Len(selected) |-> j]
            /\ main_pc' = "start"
            /\ UNCHANGED exit_code
    /\ UNCHANGED commandFrame

\* AccountManager(args.file) or load_accounts raises (the path cannot be
\* created or read): the handler under __main__ logs and re-raises
MainRaises ==
    /\ main_pc = "main" /\ command = "change"
    /\ main_pc' = "done"
    /\ exit_code' = 1
    /\ UNCHANGED <<commandFrame, count, task_queue>>

\* the batch has returned: export_accounts(output_file, "text") to a file
\* named after the time, then load_accounts() for the listing on the
\* console, both by AccountManager() after create and by
\* AccountManager(args.file) after change; main() returns
MainFinish ==
    /\ main_pc = "returned"
    /\ LET shown == IF command = "change" THEN ArgsFile ELSE accounts_file IN
          /\ export_file' = ExportLines("text", LoadAccounts(shown))
          /\ loaded' = LoadAccounts(shown)
    /\ main_pc' = "done"
    /\ exit_code' = 0
    /\ UNCHANGED <<LOCK, lock, accounts, totp_data, history, prev_accounts,
                   prev_totp, loaded_at, command, threads, proxies,
                   args_email, workerLocals, open_sessions, accounts_file,
                   totp_file, current_index, result_queue, results,
                   thread_list, pc, issued, args_file, other_file, synthVars,
                   count, task_queue>>

CommandNext ==
    \/ MainCreate
    \/ MainChange
    \/ MainRaises
    \/ MainFinish
    \/ Main
    \/ \E t \in Threads : Worker(t)

CommandSpec == CommandInit /\ [][CommandNext]_vars

\* C15: for the change command an empty target-account set (accounts file
\* empty or missing, or the requested email not found in it) is a
\* configuration error: no worker is started, no session is opened, no store
\* row changes, and the command ends with a non-zero exit; every run that
\* does dispatch jobs ends with exit 0 whatever the number of failed jobs.
C15_EmptyTargetsIsError ==
    main_pc = "done" =>
        /\ (command = "change" /\ count = 0) =>
              /\ exit_code # 0
              /\ thread_list = 0
              /\ open_sessions = {}
              /\ accounts_file = GivenAccounts(Len(accounts_file))
              /\ totp_file = <<>>
        /\ count > 0 => exit_code = 0

----------------------------------------------------------------------------
(* StoreLoadSpec: threads making save_account, update_account and          *)
(* load_accounts calls on the same files, one call after another           *)

\* what no step of these calls touches
loadFrame ==
    <<proxyVars, batchVars, task, proxy, exc, open_sessions, prev_accounts,
      prev_totp, issued, export_file, other_file, synthVars>>

CallsMade == Len(history) + Cardinality({t \in Threads : pc[t] \notin {"idle", "done"}})

LoadSave(t) == CallsMade < MaxCalls /\ ConcSave(t)

LoadUpdate(t) == CallsMade < MaxCalls /\ ConcUpdate(t)

\* load_accounts as it would be inside `with LOCK`: the file is read only
\* while no thread holds the lock
StoreIsFree == LOCK = 0

\* load_accounts takes no lock
MayLoad == TRUE

\* accounts = load_accounts(): the file is opened and read, whatever another
\* thread is doing to it
ConcLoad(t) ==
    /\ pc[t] = "idle"
    /\ MayLoad
    /\ loaded_at # Len(history) \/ loaded # LoadAccounts(accounts_file)
    /\ loaded' = LoadAccounts(accounts_file)
    /\ loaded_at' = Len(history)
    /\ UNCHANGED <<storeVars, threadVars, history>>

\* the call has returned and the thread is free for another one
ConcReturn(t) ==
    /\ pc[t] = "done"
    /\ pc' = [pc EXCEPT ![t] = "idle"]
    /\ account_info' = [account_info EXCEPT ![t] = NoInfo]
    /\ UNCHANGED <<storeVars, accounts, totp_data, history, loaded, loaded_at>>

StoreLoadNext ==
    \E t \in Threads :
        \/ LoadSave(t) /\ UNCHANGED <<loadFrame, loaded, loaded_at>>
        \/ LoadUpdate(t) /\ UNCHANGED <<loadFrame, loaded, loaded_at>>
        \/ ConcLoad(t) /\ UNCHANGED loadFrame
        \/ ConcReturn(t) /\ UNCHANGED loadFrame
        \/ StoreLock(t) /\ UNCHANGED <<loadFrame, loaded, loaded_at, account_info>>
        \/ SaveAppend(t) /\ UNCHANGED <<loadFrame, loaded, loaded_at, account_info>>
        \/ SaveTotpRead(t) /\ UNCHANGED <<loadFrame, loaded, loaded_at, account_info>>
        \/ UpdateRead(t) /\ UNCHANGED <<loadFrame, loaded, loaded_at, account_info>>
        \/ UpdateOpen(t) /\ UNCHANGED <<loadFrame, loaded, loaded_at, account_info>>
        \/ UpdateWrite(t) /\ UNCHANGED <<loadFrame, loaded, loaded_at, account_info>>
        \/ UpdateTotpRead(t) /\ UNCHANGED <<loadFrame, loaded, loaded_at, account_info>>
        \/ TotpWrite(t) /\ UNCHANGED <<loadFrame, loaded, loaded_at, account_info>>
        \/ StoreUnlock(t) /\ UNCHANGED <<loadFrame, loaded, loaded_at, account_info>>

StoreLoadSpec == StoreInit /\ [][StoreLoadNext]_vars

\* the account collection as it stood after the k-th completed call
CollectionAfter(k) == SerialResult(SubSeq(history, 1, k))[1]

\* C16: load_accounts is serialized with save_account and update_account by
\* the store lock: called while another thread is inside update_account's
\* write-back, it returns the collection as it stood after some completed
\* save or update call, never an empty or partial collection that no
\* completed call produced.  A load made when n calls had completed and
\* others were in progress returns, if it is serialized with them, the
\* collection as it stood after n or more calls; this is checked once the
\* calls in progress have completed.
C16_LoadSerialized ==
    (Quiescent /\ loaded_at >= 0) =>
        \E k \in loaded_at..Len(history) : loaded = CollectionAfter(k)

----------------------------------------------------------------------------
(* PoolSpec: one caller making add_proxy, load_from_file and               *)
(* get_next_proxy calls on one ProxyManager; history holds the last call,  *)
(* with the pool and the cursor it found and the call that preceded it     *)

MaxLines == 2

\* lines as iterating over the proxy file gives them
LineValues == {"h1:1080\n", "  h2:1080 \n", "   \n", "h1:1080"}

ProxyFiles == UNION {[1..n -> LineValues] : n \in 0..MaxLines}

\* line.strip()
Strip(line) ==
    CASE line = "h1:1080\n"     -> "h1:1080"
      [] line = "  h2:1080 \n"  -> "h2:1080"
      [] line = "   \n"         -> ""
      [] OTHER                  -> line

\* [line.strip() for line in f if line.strip()]
StrippedLines(lines) ==
    LET kept == SelectSeq(lines, LAMBDA line : Truthy(Strip(line)))
    IN  [i \in DOMAIN kept |-> Strip(kept[i])]

PoolCalled(op, arg, result) ==
    [op |-> op, arg |-> arg, pool |-> proxies, cursor |-> current_index,
     result |-> result,
     after |-> IF history = <<>> THEN "__init__" ELSE history[Len(history)].op]

\* the call is recorded in place of the one before it
PoolCompleted(call) ==
    /\ history' = <<call>>
    /\ UNCHANGED <<storeVars, lock, batchVars, threadVars, open_sessions,
                   prev_accounts, prev_totp, loaded, loaded_at, issued,
                   synthVars>>

\* if proxy not in self.proxies: self.proxies.append(proxy)
PoolAfterAdd(pool, e) == IF e \in Range(pool) THEN pool ELSE Append(pool, e)

AddProxy ==
    \E e \in Range(Endpoints) :
        /\ proxies' = PoolAfterAdd(proxies, e)
        /\ UNCHANGED current_index
        /\ PoolCompleted(PoolCalled("add_proxy", e, ""))

\* a mutated load_from_file: the cursor is left where it was
CursorAfterLoadKept(index) == index

\* self.current_index = 0
CursorAfterLoad(index) == 0

\* load_from_file on a file that can be read
LoadFromFile ==
    \E lines \in ProxyFiles :
        /\ proxies' = StrippedLines(lines)
        /\ current_index' = CursorAfterLoad(current_index)
        /\ PoolCompleted(PoolCalled("load_from_file", lines, ""))

\* load_from_file on a file that cannot be opened: the exception is caught,
\* 0 is returned and the pool is left alone
LoadFromFileFails ==
    /\ UNCHANGED <<proxies, current_index>>
    /\ PoolCompleted(PoolCalled("load_from_file fails", <<>>, ""))

\* get_next_proxy by a caller that is alone; an index past the end of the
\* list raises IndexError
PoolGetNext ==
    IF PoolIsEmpty
    THEN /\ UNCHANGED <<proxies, current_index>>
         /\ PoolCompleted(PoolCalled("get_next_proxy", "", "None"))
    ELSE IF current_index < Len(proxies)
    THEN /\ current_index' = (current_index + 1) % Len(proxies)
         /\ UNCHANGED proxies
         /\ PoolCompleted(PoolCalled("get_next_proxy", "", proxies[current_index + 1]))
    ELSE /\ UNCHANGED <<proxies, current_index>>
         /\ PoolCompleted(PoolCalled("get_next_proxy", "", "IndexError"))

\* ProxyManager(): main() passes no list
PoolInit ==
    EmptyStore /\ EmptyPool /\ NoBatch /\ IdleThreads /\ NoHistory /\ NoSynth

PoolNext == AddProxy \/ LoadFromFile \/ LoadFromFileFails \/ PoolGetNext

PoolSpec == PoolInit /\ [][PoolNext]_vars

NoDuplicates(pool) == \A i, j \in DOMAIN pool : pool[i] = pool[j] => i = j

\* C17: in every state of the allocator reachable through the constructor,
\* add_proxy and load_from_file (any arguments, any order) the pool holds
\* each endpoint string at most once; add_proxy(e) on a pool that already
\* contains e leaves the sequence and the cursor unchanged.
C17_NoDuplicateEndpoints ==
    /\ NoDuplicates(proxies)
    /\ (/\ history # <<>>
        /\ Last.op = "add_proxy"
        /\ Last.arg \in Range(Last.pool))
       => (proxies = Last.pool /\ current_index = Last.cursor)

\* the non-blank lines, stripped, in input order
RECURSIVE NonBlank(_)
NonBlank(lines) ==
    IF lines = <<>> THEN <<>>
    ELSE IF Strip(Head(lines)) = "" THEN NonBlank(Tail(lines))
    ELSE <<Strip(Head(lines))>> \o NonBlank(Tail(lines))

\* C20: load_from_file replaces the whole pool with the non-blank lines of
\* the input (stripped, in input order) and sets the cursor to 0, whatever
\* the pool and the cursor were before, so that the next get_next_proxy
\* returns the first loaded endpoint and no endpoint present before the load
\* (including one added with add_proxy) remains unless it is among the
\* loaded lines.
C20_LoadReplacesPool ==
    /\ (history # <<>> /\ Last.op = "load_from_file") =>
          /\ proxies = NonBlank(Last.arg)
          /\ current_index = 0
          /\ \A e \in Range(Last.pool) :
                e \in Range(proxies) => \E i \in DOMAIN Last.arg : Strip(Last.arg[i]) = e
    /\ (/\ history # <<>>
        /\ Last.op = "get_next_proxy" /\ Last.after = "load_from_file"
        /\ Last.pool # <<>>)
       => (Last.cursor = 0 /\ Last.result = Last.pool[1])

\* a pool of two with the cursor at 1 has been replaced by a file with a
\* blank line and one endpoint
C20_Witness ==
    /\ history # <<>>
    /\ Last.op = "load_from_file"
    /\ Len(Last.pool) = 2 /\ Last.cursor = 1
    /\ "h3:1080" \in Range(Last.pool)
    /\ Last.arg = <<"   \n", "  h2:1080 \n">>
    /\ proxies = <<"h2:1080">>
    /\ current_index = 0

----------------------------------------------------------------------------
(* More claims about a batch run (Spec) *)

\* the worker threads that have been started
Started == {t \in Threads : pc[t] # "idle"}

\* C18: the number of worker threads a run starts is min(requested worker
\* count, number of jobs) and never more than the number of jobs; with an
\* empty batch no worker is started, no proxy is allocated, no session is
\* opened and the run returns an empty result collection.
C18_WorkerCount ==
    /\ Cardinality(Started) = thread_list
    /\ thread_list <= count
    /\ thread_list <= threads
    /\ main_pc \in {"join", "collect", "returned"} =>
          thread_list = (IF threads <= count THEN threads ELSE count)
    /\ count = 0 =>
          /\ Started = {}
          /\ issued = <<>> /\ current_index = 0
          /\ open_sessions = {}
          /\ result_queue = <<>> /\ results = <<>>
          /\ Stopped => main_pc = "returned"

\* two workers were asked for and one job given: one worker ran it and the
\* run has returned
C18_Witness ==
    /\ threads = 2 /\ count = 1
    /\ main_pc = "returned"
    /\ Started = {1}
    /\ Len(results) = 1

----------------------------------------------------------------------------
(* More claims about the store under one caller (StoreSpec) *)

\* every call so far was a save_account, each for another email
DistinctSaves ==
    /\ \A i \in DOMAIN history : history[i].op = "save"
    /\ \A i, j \in DOMAIN history :
          history[i].email = history[j].email => i = j

\* email and secret of the calls that carried a secret, in call order
RECURSIVE SecretsGiven(_)
SecretsGiven(calls) ==
    IF calls = <<>> THEN <<>>
    ELSE SecretsGiven(SubSeq(calls, 1, Len(calls) - 1)) \o
         (IF calls[Len(calls)].secret = "" THEN <<>>
          ELSE <<(<<calls[Len(calls)].email, calls[Len(calls)].secret>>)>>)

\* C19: calling save_account N times with N pairwise distinct emails on an
\* empty store yields an account collection of exactly N rows, the i-th row
\* being the i-th record saved (call order), and a TOTP collection holding,
\* in the same order, one entry for each saved record whose totp_secret is
\* non-empty.
C19_SavesInCallOrder ==
    DistinctSaves =>
        /\ Len(accounts_file) = Len(history)
        /\ \A i \in DOMAIN history :
              /\ accounts_file[i].email = history[i].email
              /\ accounts_file[i].password = history[i].password
              /\ accounts_file[i].totp_secret = history[i].secret
              /\ accounts_file[i].first_name = "Alex"
              /\ accounts_file[i].birth_year = "1990"
              /\ accounts_file[i].creation_time = "t0"
        /\ [k \in DOMAIN totp_file |-> <<totp_file[k].email, totp_file[k].secret>>]
              = SecretsGiven(history)

\* two saves of different emails, the second without a secret
C19_Witness ==
    /\ DistinctSaves
    /\ Len(history) = 2
    /\ history[1].secret = "SECRET1" /\ history[2].secret = ""
    /\ Len(accounts_file) = 2 /\ Len(totp_file) = 1

----------------------------------------------------------------------------
(* ExportSpec: one caller making save_account and update_account calls and *)
(* then one export_accounts call                                           *)

ACCOUNTS_FILE == "outlook_accounts.csv"

TOTP_SECRETS_FILE == "totp_secrets.json"

\* output_file: a file of its own, or the path of one of the store's files
Destinations == {"export.txt", ACCOUNTS_FILE, TOTP_SECRETS_FILE}

FormatTypes == {"csv", "CSV", "text"}

\* no export_accounts call has been made
NotExported == \A i \in DOMAIN history : history[i].op # "export"

\* export_accounts(output_file, format_type): load_accounts(), then
\* open(output_file, 'w') and the lines; a store file that has this path
\* then holds the exported lines
ExportCall ==
    \E output_file \in Destinations, format_type \in FormatTypes :
        /\ Len(history) < MaxCalls
        /\ NotExported
        /\ LET lines == ExportLines(format_type, LoadAccounts(accounts_file)) IN
              /\ accounts_file' =
                    IF output_file = ACCOUNTS_FILE THEN lines ELSE accounts_file
              /\ totp_file' =
                    IF output_file = TOTP_SECRETS_FILE THEN lines ELSE totp_file
              /\ export_file' =
                    IF output_file \in {ACCOUNTS_FILE, TOTP_SECRETS_FILE}
                    THEN export_file ELSE lines
        /\ history' = Append(history, [op |-> "export",
                                       output_file |-> output_file,
                                       format_type |-> format_type])
        /\ prev_accounts' = accounts_file
        /\ prev_totp' = totp_file
        /\ UNCHANGED <<LOCK, other_file, proxyVars, batchVars, threadVars,
                       open_sessions, loaded, loaded_at, issued, synthVars>>

ExportNext ==
    \/ NotExported /\ SaveCall
    \/ NotExported /\ UpdateCall
    \/ ExportCall

ExportSpec == StoreInit /\ [][ExportNext]_vars

\* C21: export_accounts(destination, format) leaves the account collection
\* and the TOTP collection unchanged, for every store content, both formats
\* and every destination; on an empty store the tabular (csv) output is the
\* header line only and the line (text) output has zero lines, and on a
\* store of k rows each form has exactly k data lines in store order.
C21_ExportLeavesStore ==
    (history # <<>> /\ Last.op = "export") =>
        /\ accounts_file = prev_accounts
        /\ totp_file = prev_totp
        /\ IF Last.format_type \in {"csv", "CSV"}
           THEN /\ Len(export_file) = Len(accounts_file) + 1
                /\ export_file[1] = ExportHeader
                /\ \A i \in DOMAIN accounts_file :
                      /\ export_file[i + 1][1] = accounts_file[i].email
                      /\ export_file[i + 1][2] = accounts_file[i].password
           ELSE /\ Len(export_file) = Len(accounts_file)
                /\ \A i \in DOMAIN accounts_file :
                      /\ export_file[i][1] = accounts_file[i].email
                      /\ export_file[i][3] = accounts_file[i].password

----------------------------------------------------------------------------
(* BirthdaySpec: generate_random_birthday on a given day                   *)

MinAge == 18
MaxAge == 50

\* the days on which the generator is called
Todays == {<<2026, 11, 2>>, <<2024, 2, 29>>, <<2025, 1, 1>>, <<2025, 12, 31>>}

\* (year % 4 == 0 and year % 100 != 0) or (year % 400 == 0)
IsLeapYear(year) == (year % 4 = 0 /\ year % 100 # 0) \/ (year % 400 = 0)

\* the upper bound of random.randint(1, ...) for the day
LastDay(year, month) ==
    IF month \in {4, 6, 9, 11} THEN 30
    ELSE IF month = 2 THEN (IF IsLeapYear(year) THEN 29 ELSE 28)
    ELSE 31

BirthdayInit ==
    /\ today \in Todays
    /\ birthday = <<>>
    /\ length = 0
    /\ generated = <<>>
    /\ EmptyStore /\ EmptyPool /\ NoBatch /\ IdleThreads /\ NoHistory

\* year, month, day = self.generate_random_birthday(), for every outcome of
\* the three random.randint calls
GenerateBirthday ==
    /\ birthday = <<>>
    /\ \E year \in (today[1] - MaxAge)..(today[1] - MinAge), month \in 1..12 :
          \E day \in 1..LastDay(year, month) :
              birthday' = <<year, month, day>>
    /\ UNCHANGED <<storeVars, proxyVars, batchVars, threadVars, histVars,
                   today, length, generated>>

BirthdayNext == GenerateBirthday

BirthdaySpec == BirthdayInit /\ [][BirthdayNext]_vars

\* date a is not later than date b
NotLater(a, b) ==
    \/ a[1] < b[1]
    \/ a[1] = b[1] /\ a[2] < b[2]
    \/ a[1] = b[1] /\ a[2] = b[2] /\ a[3] <= b[3]

\* C22: for every generation date and every (year, month, day) that
\* generate_random_birthday can return on that date, the generated person is
\* at least 18 full years old on the generation date (the 18th birthday is
\* not later than the generation date), and current_year - birth_year lies
\* in [18, 50].
C22_AtLeast18 ==
    birthday # <<>> =>
        /\ NotLater(<<birthday[1] + 18, birthday[2], birthday[3]>>, today)
        /\ today[1] - birthday[1] >= 18
        /\ today[1] - birthday[1] <= 50

----------------------------------------------------------------------------
(* PasswordSpec: generate_random_password(length)                          *)

MaxLength == 5

\* string.ascii_lowercase, string.ascii_uppercase, string.digits and the
\* symbols, each cut down to a few of its characters
lowercase == {"a", "z"}
uppercase == {"A"}
digits    == {"7"}
special   == {"!", "+"}

all_chars == lowercase \cup uppercase \cup digits \cup special

\* a mutated generator: the fourth character is a second lowercase letter
RequiredNoSymbol(l, u, d, s) == <<l, u, d, l>>

\* password = [choice(lowercase), choice(uppercase), choice(digits),
\*             choice(special)]
Required(l, u, d, s) == <<l, u, d, s>>

\* range(remaining_length) is empty for a length below 4
Remaining(n) == IF n - 4 > 0 THEN n - 4 ELSE 0

\* random.shuffle(password) with the outcome perm
Shuffled(chars, perm) == [i \in DOMAIN chars |-> chars[perm[i]]]

PasswordInit ==
    /\ length \in 0..MaxLength
    /\ generated = <<>>
    /\ today = <<>>
    /\ birthday = <<>>
    /\ EmptyStore /\ EmptyPool /\ NoBatch /\ IdleThreads /\ NoHistory

\* generate_random_password(length), for every outcome of the random
\* choices and of the shuffle
GeneratePassword ==
    /\ generated = <<>>
    /\ \E l \in lowercase, u \in uppercase, d \in digits, s \in special :
          \E rest \in [1..Remaining(length) -> all_chars] :
              \E perm \in Permutations(1..(4 + Remaining(length))) :
                  generated' = Shuffled(Required(l, u, d, s) \o rest, perm)
    /\ UNCHANGED <<storeVars, proxyVars, batchVars, threadVars, histVars,
                   today, birthday, length>>

PasswordNext == GeneratePassword

PasswordSpec == PasswordInit /\ [][PasswordNext]_vars

\* C23: for every requested length L >= 4 and every outcome of the random
\* choices, generate_random_password(L) returns a string of exactly L
\* characters that contains at least one lowercase letter, one uppercase
\* letter, one digit and one symbol, and only characters of those four
\* classes.
C23_PasswordClasses ==
    (generated # <<>> /\ length >= 4) =>
        /\ Len(generated) = length
        /\ \E i \in DOMAIN generated : generated[i] \in lowercase
        /\ \E i \in DOMAIN generated : generated[i] \in uppercase
        /\ \E i \in DOMAIN generated : generated[i] \in digits
        /\ \E i \in DOMAIN generated : generated[i] \in special
        /\ \A i \in DOMAIN generated :
              generated[i] \in lowercase \cup uppercase \cup digits \cup special

\* five characters were asked for; the shuffle has put the symbol first and
\* the extra character, a second symbol, last
C23_Witness ==
    /\ length = 5
    /\ generated = <<"!", "7", "a", "A", "+">>

----------------------------------------------------------------------------
(* The order of a worker's steps on one job                                *)

\* the session worker t opened for the job it holds is still open
HasSession(t) == <<t, task[t]>> \in open_sessions

\* C24: for every job a worker processes the events occur in the order
\* dequeue, allocate proxy, open session, run procedure, release session,
\* persist result, test the queue again; in particular the job's session is
\* already released when the store write for that job begins, so no worker
\* is at (or inside) its store call with a session open.
C24_SessionReleasedBeforeStore ==
    \A t \in Threads : pc[t] = "store" => ~HasSession(t)

----------------------------------------------------------------------------
(* PoolConcSpec: threads inside get_next_proxy, one statement per step,    *)
(* while other threads call add_proxy and load_from_file                   *)

\* a thread calls get_next_proxy
PoolConcCall(t) ==
    /\ pc[t] = "idle"
    /\ Len(issued) + Cardinality({u \in Threads : InCall(u)}) < MaxCalls
    /\ pc' = [pc EXCEPT ![t] = "get_next_proxy"]
    /\ UNCHANGED <<proxyVars, proxy, issued>>

\* proxy = self.proxies[self.current_index] with the cursor past the end of
\* the list: IndexError leaves the with block, which releases the lock, and
\* get_next_proxy, which has no handler
GetNextProxyReadRaises(t) ==
    /\ pc[t] = "proxy_read"
    /\ ~(current_index < Len(proxies))
    /\ lock' = 0
    /\ pc' = [pc EXCEPT ![t] = "IndexError"]
    /\ UNCHANGED <<proxies, current_index, proxy, issued>>

\* add_proxy by another thread: the block under self.lock
PoolConcAddProxy ==
    \E e \in Range(Endpoints) :
        /\ lock = 0
        /\ proxies' = PoolAfterAdd(proxies, e)
        /\ UNCHANGED <<current_index, lock, pc, proxy, issued>>

\* load_from_file by another thread: the file is read into a local list,
\* then both assignments are made under self.lock
PoolConcLoadFromFile ==
    \E lines \in ProxyFiles :
        /\ lock = 0
        /\ proxies' = StrippedLines(lines)
        /\ current_index' = CursorAfterLoad(current_index)
        /\ UNCHANGED <<lock, pc, proxy, issued>>

PoolConcNext ==
    \/ PoolConcAddProxy /\ UNCHANGED proxyFrame
    \/ PoolConcLoadFromFile /\ UNCHANGED proxyFrame
    \/ \E t \in Threads :
        \/ PoolConcCall(t) /\ UNCHANGED proxyFrame
        \/ GetNextProxyTest(t, "idle") /\ UNCHANGED proxyFrame
        \/ GetNextProxyLock(t) /\ UNCHANGED proxyFrame
        \/ GetNextProxyRead(t) /\ UNCHANGED proxyFrame
        \/ GetNextProxyReadRaises(t) /\ UNCHANGED proxyFrame
        \/ GetNextProxyAdvance(t) /\ UNCHANGED proxyFrame
        \/ GetNextProxyReturn(t, "idle") /\ UNCHANGED proxyFrame

PoolConcSpec == ProxyInit /\ [][PoolConcNext]_vars

\* the size the cursor is reduced by
MaxOf(a, b) == IF a >= b THEN a ELSE b

\* C25: get_next_proxy called concurrently with load_from_file (a load that
\* leaves the pool empty included) or add_proxy never raises: no call ends
\* in an exception, a call past its read holds an endpoint that is in the
\* pool as it stands while the call holds the lock, and in every state
\* 0 <= cursor < max(1, pool size).
C25_GetNextProxyNeverRaises ==
    /\ \A t \in Threads : pc[t] # "IndexError"
    /\ \A t \in Threads :
          pc[t] \in {"proxy_advance", "proxy_return"} =>
              \E i \in DOMAIN proxies : proxies[i] = proxy[t]
    /\ 0 <= current_index
    /\ current_index < MaxOf(1, Len(proxies))

----------------------------------------------------------------------------
(* The store the change command writes to                                  *)

\* C26: in the change command, for the default accounts file and for another
\* file given with -f, every successful change-password job writes its new
\* password into the store the target accounts were loaded from: the load and
\* the export made after the batch show the new password for every account
\* whose job succeeded.
C26_ChangeWritesGivenFile ==
    (main_pc = "done" /\ command = "change") =>
        \A r \in DOMAIN results :
            ~results[r].error =>
                /\ \E i \in DOMAIN loaded :
                      /\ Get(loaded[i], "email", "") = results[r].email
                      /\ Get(loaded[i], "password", "") = "pw2"
                /\ \E i \in DOMAIN export_file :
                      /\ export_file[i][1] = results[r].email
                      /\ export_file[i][3] = "pw2"

----------------------------------------------------------------------------
(* Results and rows                                                        *)

\* the password the store holds for an account once its job's write is done
PersistedPassword == IF command = "create" THEN "pw1" ELSE "pw2"

\* the accounts file has the row the job about this address writes
RowPersisted(email) ==
    \E i \in DOMAIN accounts_file :
        /\ accounts_file[i].email = email
        /\ accounts_file[i].password = PersistedPassword

\* C27: at every moment of a run, each result without an error that is in
\* the result collector (or in the returned results) belongs to a job whose
\* store write has completed: its row is in the store.
C27_SuccessAfterStoreWrite ==
    /\ \A i \in DOMAIN result_queue :
          ~result_queue[i].error => RowPersisted(result_queue[i].email)
    /\ \A i \in DOMAIN results :
          ~results[i].error => RowPersisted(results[i].email)

\* a success result is in the collector while the run goes on: the workers
\* are not joined yet and another worker is inside its job procedure
C27_Witness ==
    /\ main_pc = "join"
    /\ \E i \in DOMAIN result_queue : ~result_queue[i].error
    /\ \E t \in Threads : pc[t] = "run"

============================================================================
